---- MODULE Spec2Model ----
(***************************************************************************)
(* Model of gan_tester.py: the generator / discriminator definitions and   *)
(* the alternating-update training loop with its periodic snapshots.       *)
(*                                                                         *)
(* Tensors are records: their sizes along the first two dimensions, an     *)
(* abstract content, and the set of networks whose parameters are in the   *)
(* tensor's autograd graph.  A network's parameters are a version number   *)
(* (the number of optimizer steps applied to them); a network's gradient   *)
(* buffer is the bag of loss terms that backward() accumulated into it.    *)
(* A torch.randn call is a nondeterministic draw of an abstract content;   *)
(* the draws of the consecutive randn calls inside one Generator.forward   *)
(* are the components <<z, idx>> of one drawn stream segment z.            *)
(***************************************************************************)
EXTENDS Integers, Sequences, FiniteSets, Bags, TLC

VARIABLES pc, num_epochs, len_dataloader, epoch, i, iters,
          paramsD, paramsG, gradD, gradG, last_opt,
          fixed_noise, noise, fake, img_list, shown

vars == <<pc, num_epochs, len_dataloader, epoch, i, iters,
          paramsD, paramsG, gradD, gradG, last_opt,
          fixed_noise, noise, fake, img_list, shown>>

(* ------------------------------ bounds --------------------------------- *)
\* num_epochs ranges over 0..MaxEpochs
MaxEpochs == 2
\* the dataloader holds 1..MaxBatches batches, or LongLoader batches
MaxBatches == 2
LongLoader == 251
\* contents a torch.randn call can return: 0..MaxVal
MaxVal == 1

Vals == 0..MaxVal

(* ------------------------- program constants --------------------------- *)
batch_size == 64
nz == 100
n_latent == 100
sequence_length == 1
SnapshotEvery == 500

\* a name not yet bound to a tensor
NoTensor == [size0 |-> 0, size1 |-> 0, val |-> -1, graph |-> {}]

\* data['B'].to(device): a batch of the dataset, a leaf without autograd graph
real_cpu ==
    [size0 |-> batch_size, size1 |-> sequence_length, val |-> -1, graph |-> {}]

(* ------------------------------ tensors -------------------------------- *)
\* torch.randn(size0, size1, 1, 1): a fresh leaf tensor whose content is the draw z
Randn(size0, size1, z) ==
    [size0 |-> size0, size1 |-> size1, val |-> z, graph |-> {}]

\* x[:, idx]
Select(x, idx) ==
    [size0 |-> x.size0, size1 |-> 1, val |-> <<x.val, idx>>, graph |-> x.graph]

\* NoiseGenerator.main applied to a latent batch: the image batch is a
\* function of the parameters and of the latent batch, nothing else
Main(params, latent) ==
    [size0 |-> latent.size0, net |-> params, latent |-> latent.val]

\* NoiseGenerator.forward(x) with z the draw of its torch.randn call
NoiseGeneratorForward(x, z, params) ==
    Main(params, Randn(x.size0, n_latent, z))

\* Generator.forward(x); z is the segment of the random stream that the
\* x.size(1) calls of NoiseGenerator.forward consume, <<z, idx>> the idx-th draw
GeneratorForward(x, z, params, grad_enabled) ==
    [size0  |-> x.size0,
     size1  |-> x.size1,
     frames |-> [idx \in 1..x.size1 |->
                   NoiseGeneratorForward(Select(x, idx), <<z, idx>>, params)],
     graph  |-> IF grad_enabled THEN {"G"} ELSE {}]

\* t.detach()
Detach(t) == [t EXCEPT !.graph = {}]

\* the autograd graph of criterion(netD(t).view(-1), label)
LossGraph(t) == t.graph \cup {"D"}

\* loss.backward(): the term is accumulated into the gradient buffer of
\* every network in the loss's graph
Backward(grad, net, graph, term) ==
    IF net \in graph THEN grad (+) SetToBag({term}) ELSE grad

\* a zero_grad() that leaves the buffer as it is
ZeroGradKeeps(grad) == grad

\* net.zero_grad()
ZeroGrad(grad) == EmptyBag

Term(loss, it) == [loss |-> loss, it |-> it]

\* the condition with the print statement's period (line 294) on i
SnapshotCondPrintPeriod(it, ep, ii, ne, len) ==
    (ii % 50 = 0) \/ ((ep = ne - 1) /\ (ii = len - 1))

\* the condition without its final-iteration disjunct
SnapshotCondPeriodicOnly(it, ep, ii, ne, len) ==
    it % SnapshotEvery = 0

\* the condition of line 304
SnapshotCond(it, ep, ii, ne, len) ==
    (it % SnapshotEvery = 0) \/ ((ep = ne - 1) /\ (ii = len - 1))

(* ------------------------------- Init ---------------------------------- *)
Init ==
    /\ pc = "for_epoch"
    /\ num_epochs \in 0..MaxEpochs
    /\ len_dataloader \in (1..MaxBatches) \cup {LongLoader}
    /\ epoch = -1
    /\ i = -1
    /\ iters = 0
    /\ paramsD = 0
    /\ paramsG = 0
    /\ gradD = EmptyBag
    /\ gradG = EmptyBag
    /\ last_opt = "none"
    /\ \E z \in Vals : fixed_noise = Randn(64, nz, z)
    /\ noise = NoTensor
    /\ fake = NoTensor
    /\ img_list = <<>>
    /\ shown = "none"

(* ------------------------------ actions -------------------------------- *)
\* for epoch in range(num_epochs): next epoch, or leave the loop
ForEpoch ==
    /\ pc = "for_epoch"
    /\ IF epoch + 1 < num_epochs
         THEN /\ epoch' = epoch + 1
              /\ i' = -1
              /\ pc' = "for_batch"
         ELSE /\ pc' = "plot"
              /\ UNCHANGED <<epoch, i>>
    /\ UNCHANGED <<num_epochs, len_dataloader, iters, paramsD, paramsG, gradD,
                   gradG, last_opt, fixed_noise, noise, fake, img_list, shown>>

\* for i, data in enumerate(dataloader, 0): next batch, or end of the epoch
ForBatch ==
    /\ pc = "for_batch"
    /\ IF i + 1 < len_dataloader
         THEN /\ i' = i + 1
              /\ pc' = "d_real"
         ELSE /\ pc' = "for_epoch"
              /\ UNCHANGED i
    /\ UNCHANGED <<num_epochs, len_dataloader, epoch, iters, paramsD, paramsG,
                   gradD, gradG, last_opt, fixed_noise, noise, fake, img_list,
                   shown>>

\* lines 246-257: netD.zero_grad(); errD_real.backward()
TrainDReal ==
    /\ pc = "d_real"
    /\ gradD' = Backward(ZeroGrad(gradD), "D", LossGraph(real_cpu),
                         Term("errD_real", iters))
    /\ pc' = "d_fake"
    /\ UNCHANGED <<num_epochs, len_dataloader, epoch, i, iters, paramsD,
                   paramsG, gradG, last_opt, fixed_noise, noise, fake,
                   img_list, shown>>

\* lines 262-274: noise, fake = netG(noise), errD_fake.backward() on fake.detach()
TrainDFake ==
    /\ pc = "d_fake"
    /\ \E v \in Vals, z \in Vals :
         LET n == Randn(real_cpu.size0, real_cpu.size1, v)
             f == GeneratorForward(n, z, paramsG, TRUE)
             g == LossGraph(Detach(f))
         IN /\ noise' = n
            /\ fake' = f
            /\ gradD' = Backward(gradD, "D", g, Term("errD_fake", iters))
            /\ gradG' = Backward(gradG, "G", g, Term("errD_fake", iters))
    /\ pc' = "opt_d"
    /\ UNCHANGED <<num_epochs, len_dataloader, epoch, i, iters, paramsD,
                   paramsG, last_opt, fixed_noise, img_list, shown>>

\* line 276: optimizerD.step()
OptimizerDStep ==
    /\ pc = "opt_d"
    /\ paramsD' = paramsD + 1
    /\ last_opt' = "D"
    /\ pc' = "g_update"
    /\ UNCHANGED <<num_epochs, len_dataloader, epoch, i, iters, paramsG, gradD,
                   gradG, fixed_noise, noise, fake, img_list, shown>>

\* lines 281-289: netG.zero_grad(); errG = criterion(netD(fake), real); errG.backward()
TrainG ==
    /\ pc = "g_update"
    /\ LET g == LossGraph(fake)
       IN /\ gradG' = Backward(ZeroGrad(gradG), "G", g, Term("errG", iters))
          /\ gradD' = Backward(gradD, "D", g, Term("errG", iters))
    /\ pc' = "opt_g"
    /\ UNCHANGED <<num_epochs, len_dataloader, epoch, i, iters, paramsD,
                   paramsG, last_opt, fixed_noise, noise, fake, img_list, shown>>

\* the generator phase stepping optimizerD instead of optimizerG
OptimizerGStepStepsD ==
    /\ pc = "opt_g"
    /\ paramsD' = paramsD + 1
    /\ last_opt' = "D"
    /\ pc' = "snapshot"
    /\ UNCHANGED <<num_epochs, len_dataloader, epoch, i, iters, paramsG, gradD,
                   gradG, fixed_noise, noise, fake, img_list, shown>>

\* line 291: optimizerG.step()
OptimizerGStep ==
    /\ pc = "opt_g"
    /\ paramsG' = paramsG + 1
    /\ last_opt' = "G"
    /\ pc' = "snapshot"
    /\ UNCHANGED <<num_epochs, len_dataloader, epoch, i, iters, paramsD, gradD,
                   gradG, fixed_noise, noise, fake, img_list, shown>>

\* lines 303-309: snapshot of netG(fixed_noise) under no_grad when the
\* condition holds; iters += 1.  it, epoch and i of an entry record the
\* iteration that appended it.
Snapshot ==
    /\ pc = "snapshot"
    /\ IF SnapshotCond(iters, epoch, i, num_epochs, len_dataloader)
         THEN \E z \in Vals :
                LET f == Detach(GeneratorForward(fixed_noise, z, paramsG, FALSE))
                IN /\ fake' = f
                   /\ img_list' = Append(img_list,
                         [it |-> iters, epoch |-> epoch, i |-> i, img |-> f])
         ELSE UNCHANGED <<fake, img_list>>
    /\ iters' = iters + 1
    /\ pc' = "for_batch"
    /\ UNCHANGED <<num_epochs, len_dataloader, epoch, i, paramsD, paramsG,
                   gradD, gradG, last_opt, fixed_noise, noise, shown>>

\* lines 346-350: plt.imshow(img_list[-1]); IndexError on an empty list
PlotFake ==
    /\ pc = "plot"
    /\ IF img_list = <<>>
         THEN /\ pc' = "error"
              /\ UNCHANGED shown
         ELSE /\ shown' = img_list[Len(img_list)].img
              /\ pc' = "done"
    /\ UNCHANGED <<num_epochs, len_dataloader, epoch, i, iters, paramsD,
                   paramsG, gradD, gradG, last_opt, fixed_noise, noise, fake,
                   img_list>>

Next ==
    \/ ForEpoch
    \/ ForBatch
    \/ TrainDReal
    \/ TrainDFake
    \/ OptimizerDStep
    \/ TrainG
    \/ OptimizerGStep
    \/ Snapshot
    \/ PlotFake

Spec == Init /\ [][Next]_vars

(* ------------------------------ claims --------------------------------- *)
TotalIters == num_epochs * len_dataloader
Finished == pc \in {"plot", "done", "error"}
LastSnapshot == img_list[Len(img_list)]

\* C1: the optimizer steps alternate D, G, D, G, ...: each iteration performs
\* exactly one optimizerD.step() followed by exactly one optimizerG.step(), no
\* optimizer is stepped twice in a row, the first step is D and the run ends
\* after a G step.
C1_OptimizerStepsAlternate ==
    /\ last_opt = "none" => (paramsD = 0 /\ paramsG = 0)
    /\ last_opt = "D" => paramsD = paramsG + 1
    /\ last_opt = "G" => paramsD = paramsG
    /\ paramsD = iters + (IF pc \in {"g_update", "opt_g", "snapshot"} THEN 1 ELSE 0)
    /\ paramsG = iters + (IF pc = "snapshot" THEN 1 ELSE 0)
    /\ Finished => (last_opt # "D" /\ paramsD = TotalIters /\ paramsG = TotalIters)

C1_Witness ==
    /\ pc = "done"
    /\ last_opt = "G"
    /\ paramsD >= 2
    /\ paramsG = paramsD

\* C2: a snapshot is appended in exactly the iterations whose global counter
\* is a multiple of 500 or which are the last batch of the last epoch, and no
\* iteration appends more than one snapshot.
C2_SnapshotIterations ==
    LET Due(k) == (k % 500 = 0) \/ (k = TotalIters - 1)
    IN /\ \A n \in 1..Len(img_list) :
            /\ img_list[n].it \in 0..(iters - 1)
            /\ Due(img_list[n].it)
       /\ \A n \in 1..Len(img_list), m \in 1..Len(img_list) :
            n < m => img_list[n].it < img_list[m].it
       /\ \A k \in 0..(iters - 1) :
            Due(k) => \E n \in 1..Len(img_list) : img_list[n].it = k

C2_Witness ==
    /\ Len(img_list) = 3
    /\ img_list[1].it = 0
    /\ img_list[2].it = 500
    /\ img_list[3].it = TotalIters - 1
    /\ iters > 501

\* C3: the generator's output depends on the content of its input: for the
\* fake batch just generated from noise there is an input of the same shape
\* and a different content that, under the same random draws and the same
\* parameters, gives a different output.
C3_OutputDependsOnInput ==
    pc = "opt_d" =>
      \E v \in Vals, z \in Vals :
        /\ v # noise.val
        /\ GeneratorForward(noise, z, paramsG, TRUE) = fake
        /\ GeneratorForward([noise EXCEPT !.val = v], z, paramsG, TRUE) # fake

\* C4: all snapshots are the generator's output on the same latent vectors:
\* the latents fed to the generator's network agree between any two
\* snapshots, and snapshots taken with equal parameters are equal images.
C4_SnapshotsShareLatents ==
    \A a \in 1..Len(img_list), b \in 1..Len(img_list) :
        /\ \A idx \in 1..nz :
             img_list[a].img.frames[idx].latent = img_list[b].img.frames[idx].latent
        /\ (img_list[a].img.frames[1].net = img_list[b].img.frames[1].net)
             => img_list[a].img = img_list[b].img

\* C5: when the loop ran at least one iteration, img_list is non-empty at the
\* end of training, its last element is the snapshot of the final iteration,
\* taken after the final optimizerG.step(), and that is the image plotted.
C5_LastSnapshotIsFinal ==
    (Finished /\ num_epochs >= 1 /\ len_dataloader >= 1) =>
      /\ img_list # <<>>
      /\ pc # "error"
      /\ LastSnapshot.it = TotalIters - 1
      /\ LastSnapshot.epoch = num_epochs - 1
      /\ LastSnapshot.i = len_dataloader - 1
      /\ paramsG = TotalIters
      /\ \A idx \in 1..nz : LastSnapshot.img.frames[idx].net = paramsG
      /\ pc = "done" => shown = LastSnapshot.img

C5_Witness ==
    /\ pc = "done"
    /\ num_epochs >= 1
    /\ Len(img_list) >= 2
    /\ shown = LastSnapshot.img
    /\ LastSnapshot.it = TotalIters - 1

\* C6: at optimizerD.step() the discriminator's gradient buffer holds the
\* gradients of errD_real and errD_fake of the current iteration and nothing
\* else (the term that errG.backward() left there in the previous iteration
\* is gone); at optimizerG.step() the generator's buffer holds the gradient
\* of errG of the current iteration and nothing else.
C6_GradientsOfCurrentIteration ==
    /\ pc = "opt_d" =>
         gradD = SetToBag({Term("errD_real", iters), Term("errD_fake", iters)})
    /\ pc = "opt_g" => gradG = SetToBag({Term("errG", iters)})
    /\ (pc = "d_real" /\ iters > 0) => BagIn(Term("errG", iters - 1), gradD)
    /\ pc \in {"opt_d", "g_update"} => ~ BagIn(Term("errD_fake", iters), gradG)

C6_Witness ==
    /\ pc = "opt_g"
    /\ iters >= 1
    /\ gradG = SetToBag({Term("errG", iters)})
    /\ BagIn(Term("errG", iters), gradD)
    /\ BagIn(Term("errD_fake", iters), gradD)

====
